---- MODULE Spec2Model ----
(***************************************************************************)
(* Ticket workflow of the authentication service: POST /register           *)
(* (registerAccount), POST /user/email/change (userEmailChange) and the    *)
(* link-click callback that exchanges a ticket for a session.              *)
(* Every `await` on the backend or on the mail service is a point where    *)
(* another request may run, so each handler is cut at those awaits.        *)
(***************************************************************************)
EXTENDS Integers, Sequences, FiniteSets, TLC

(* ------------------------------ bounds --------------------------------- *)
MaxTickets == 2       \* uuidv4() calls, one per request that gets past its guards
MaxConcurrent == 2    \* requests in flight at the same time
MaxTicks == 1         \* clock advances

(* ---------------------------- constants -------------------------------- *)
Tick == 60 * 60 * 1000                  \* one clock advance, in ms
NullTime == 0 - 1                       \* a null timestamp
NoAccount == 0                          \* no account / null jwt subject
Undefined == "undefined"                \* an absent body field

Emails == {"a@x", "b@x"}
NewEmails == {"c@x"}
Whitelist == {"a@x"}
Compromised == {"pwned"}

EMAIL_TYPES_CONFIRM_CHANGE == "emailConfirmChange"
NoPrefix == ""
TicketTypes == {EMAIL_TYPES_CONFIRM_CHANGE, "emailVerify"}

NoTicket == [prefix |-> "null", uuid |-> 0]

DEFAULT_USER_ROLE == "user"
DEFAULT_ALLOWED_USER_ROLES == <<"user", "me">>
ALLOWED_USER_ROLES == <<"user", "me", "editor">>
\* a deployment whose configured defaults do not pass the role checks
BAD_DEFAULT_USER_ROLE == "admin"

NoOptions == [default_role |-> Undefined, has_allowed |-> FALSE, allowed_roles |-> <<>>]

\* request bodies of POST /register, without the email: the password
\* (absent for a magic-link registration) and register_options
Bodies ==
  { [password |-> Undefined, opts |-> NoOptions],
    [password |-> "pwned",   opts |-> NoOptions],
    [password |-> "strong",
     opts |-> [default_role |-> "me", has_allowed |-> TRUE, allowed_roles |-> <<"me", "editor">>]],
    [password |-> "strong",
     opts |-> [default_role |-> "admin", has_allowed |-> TRUE, allowed_roles |-> <<"user">>]],
    [password |-> "strong",
     opts |-> [default_role |-> "root", has_allowed |-> TRUE, allowed_roles |-> <<"user", "root">>]] }

\* The configuration flags the handlers read. DEFAULT_ROLE_OK is not a flag of
\* the service: it says whether REGISTRATION.DEFAULT_USER_ROLE is one of
\* REGISTRATION.DEFAULT_ALLOWED_USER_ROLES.
Flags == {"ADMIN_ONLY", "WHITELIST", "MAGIC_LINK_ENABLED", "AUTO_ACTIVATE_NEW_USERS",
          "VERIFY_EMAILS", "EMAILS_ENABLED", "DEFAULT_ROLE_OK"}

\* The deployments checked: every combination of AUTO_ACTIVATE_NEW_USERS and
\* VERIFY_EMAILS with the route's guards open, mail switched off where the
\* code reads EMAILS_ENABLED, one deployment with the three guards closed, and
\* one whose default role is not among its default allowed roles.
Configurations ==
  { c \in [Flags -> BOOLEAN] :
      /\ c["ADMIN_ONLY"] = c["WHITELIST"]
      /\ c["ADMIN_ONLY"] = ~c["MAGIC_LINK_ENABLED"]
      /\ (~c["EMAILS_ENABLED"] => ~c["AUTO_ACTIVATE_NEW_USERS"] /\ c["VERIFY_EMAILS"])
      /\ (c["ADMIN_ONLY"] \/ ~c["DEFAULT_ROLE_OK"]
            => c["EMAILS_ENABLED"] /\ ~c["AUTO_ACTIVATE_NEW_USERS"] /\ c["VERIFY_EMAILS"])
      /\ ~(c["ADMIN_ONLY"] /\ ~c["DEFAULT_ROLE_OK"]) }

VARIABLES
  cfg,             \* the configuration the service was started with
  now,             \* wall clock, ms
  accounts,        \* auth accounts / users of the backend, by id
  refresh_tokens,  \* the accounts a refresh token is stored for
  lastEmail,       \* the email the last step handed to the mail service, if any
  reqs,            \* the requests in flight, by slot
  nextUuid,        \* uuidv4(): every call returns an identifier never seen
  exchanged,       \* history: the tickets exchanged for a session
  lastResponse     \* the response sent by the last step, NoResponse if it sent none

vars == <<cfg, now, accounts, refresh_tokens, lastEmail, reqs, nextUuid,
          exchanged, lastResponse>>

Slots == 1..MaxConcurrent

\* A request is identified by the uuid it drew; a request answered before it
\* drew one has id 0 and has touched nothing.
IdleRequest ==
  [id |-> 0, kind |-> "none", pc |-> "idle", email |-> Undefined,
   password |-> Undefined, opts |-> NoOptions, magicLink |-> FALSE,
   ticket |-> NoTicket, expires |-> NullTime, genAt |-> NullTime,
   acct |-> NoAccount, sendAttempts |-> 0]

NoResponse ==
  [kind |-> "none", status |-> 0, msg |-> "", acct |-> NoAccount,
   jwt |-> NoAccount, refresh |-> FALSE, sendAttempts |-> 0]

NoEmail == [req |-> 0, template |-> "", to |-> Undefined, ticket |-> NoTicket]

\* res.send / res.boom / the 5xx of an exception that nothing caught
Response(req, status, msg) ==
  [kind |-> req.kind, status |-> status, msg |-> msg, acct |-> req.acct,
   jwt |-> NoAccount, refresh |-> FALSE, sendAttempts |-> req.sendAttempts]

(* ------------------------- pure helpers -------------------------------- *)
\* Array.prototype.includes
Includes(arr, x) == \E i \in DOMAIN arr : arr[i] = x

\* Array.prototype.every(role => other.includes(role))
EveryIncluded(arr, other) == \A i \in DOMAIN arr : Includes(other, arr[i])

\* body.password === undefined
isMagicLinkRegister(body) == body.password = Undefined
isMagicLinkLogin(body) == body.password = Undefined
isRegularLogin(body) == body.password # Undefined

isCompromisedPassword(password) == password \in Compromised
hashPassword(password) == <<"hash", password>>
NullHash == <<"null", "">>

isAllowedEmail(email) == email \in Whitelist
selectAccountByEmail(accts, email) == \E i \in DOMAIN accts : accts[i].email = email

\* register_options.default_role ?? REGISTRATION.DEFAULT_USER_ROLE
DefaultRoleOf(c, opts) ==
  IF opts.default_role # Undefined THEN opts.default_role
  ELSE IF c["DEFAULT_ROLE_OK"] THEN DEFAULT_USER_ROLE ELSE BAD_DEFAULT_USER_ROLE

\* register_options.allowed_roles ?? REGISTRATION.DEFAULT_ALLOWED_USER_ROLES
AllowedRolesOf(opts) ==
  IF opts.has_allowed THEN opts.allowed_roles ELSE DEFAULT_ALLOWED_USER_ROLES

\* fault variant: the subset check is missing
RoleRejection_NoSubsetCheck(defaultRole, allowedRoles) ==
  IF ~Includes(allowedRoles, defaultRole)
  THEN "Default role must be part of allowed roles"
  ELSE ""

\* the first of the two role checks that fails, "" when both pass
RoleRejection(defaultRole, allowedRoles) ==
  IF ~Includes(allowedRoles, defaultRole)
  THEN "Default role must be part of allowed roles"
  ELSE IF ~EveryIncluded(allowedRoles, ALLOWED_USER_ROLES)
  THEN "Allowed roles must be a subset of ALLOWED_ROLES"
  ELSE ""

\* const ticket = uuidv4()
RegisterTicket(uuid) == [prefix |-> NoPrefix, uuid |-> uuid]

\* const ticket = `${EMAIL_TYPES.CONFIRM_CHANGE}:${uuidv4()}`
ChangeTicket(uuid) == [prefix |-> EMAIL_TYPES_CONFIRM_CHANGE, uuid |-> uuid]

\* fault variant: a factor of 60 is missing
RegisterTicketExpiresAt_Minute(t) == t + 60 * 1000

\* new Date(+new Date() + 60 * 60 * 1000)
RegisterTicketExpiresAt(t) == t + 60 * 60 * 1000

\* generateTicketExpiresAt(seconds)
generateTicketExpiresAt(t, seconds) == t + seconds * 1000

\* fault variant: the negation is missing
VerificationRequired_DroppedNot(c) ==
  c["AUTO_ACTIVATE_NEW_USERS"] /\ c["VERIFY_EMAILS"]

\* !REGISTRATION.AUTO_ACTIVATE_NEW_USERS && AUTHENTICATION.VERIFY_EMAILS
VerificationRequired(c) ==
  ~c["AUTO_ACTIVATE_NEW_USERS"] /\ c["VERIFY_EMAILS"]

(* ------------------------------ Init ----------------------------------- *)
Init ==
  /\ cfg \in Configurations
  /\ now = 0
  /\ accounts = <<>>
  /\ refresh_tokens = {}
  /\ lastEmail = NoEmail
  /\ reqs = [s \in Slots |-> IdleRequest]
  /\ nextUuid = 1
  /\ exchanged = {}
  /\ lastResponse = NoResponse

\* a new request is served in the first slot that is not in use
Free(s) ==
  /\ reqs[s].pc = "idle"
  /\ \A t \in Slots : t < s => reqs[t].pc # "idle"

(* --------------------------- POST /register ---------------------------- *)
\* The rejection, if any, of a register request up to and including
\* selectAccountByEmail: the route's magic-link guard, the admin secret, the
\* whitelist and the existing-account lookup.
EarlyRejection(c, accts, body, adminSecretOk) ==
  IF isMagicLinkRegister(body) /\ ~c["MAGIC_LINK_ENABLED"]
  THEN [status |-> 400, msg |-> "Magic link registration is disabled"]
  ELSE IF c["ADMIN_ONLY"] /\ ~adminSecretOk
  THEN [status |-> 401, msg |-> "Invalid x-admin-secret"]
  ELSE IF c["WHITELIST"] /\ ~isAllowedEmail(body.email)
  THEN [status |-> 401, msg |-> "Email not allowed"]
  ELSE IF selectAccountByEmail(accts, body.email)
  THEN [status |-> 400, msg |-> "Account already exists"]
  ELSE [status |-> 0, msg |-> ""]

\* Route guard and registerAccount up to the ticket generation.
RegisterStart(s, email, b, adminSecretOk) ==
  /\ Free(s)
  /\ LET body == [IdleRequest EXCEPT !.kind = "register", !.email = email,
                    !.password = b.password, !.opts = b.opts,
                    !.magicLink = isMagicLinkLogin(b)]
         rej == EarlyRejection(cfg, accounts, body, adminSecretOk)
     IN IF rej.status # 0
        THEN /\ lastResponse' = Response(body, rej.status, rej.msg)
             /\ UNCHANGED <<reqs, nextUuid>>
        ELSE /\ nextUuid <= MaxTickets
             /\ reqs' = [reqs EXCEPT ![s] =
                           [body EXCEPT !.pc = "reg_validate",
                                        !.id = nextUuid,
                                        !.ticket = RegisterTicket(nextUuid),
                                        !.expires = RegisterTicketExpiresAt(now),
                                        !.genAt = now]]
             /\ nextUuid' = nextUuid + 1
             /\ lastResponse' = NoResponse
  /\ lastEmail' = NoEmail
  /\ UNCHANGED <<cfg, now, accounts, refresh_tokens, exchanged>>

\* The rejection, if any, between the ticket generation and the insert: the
\* compromised-password check and the two role checks.
LateRejection(c, req) ==
  IF isRegularLogin(req) /\ isCompromisedPassword(req.password)
  THEN "Password is too weak"
  ELSE RoleRejection(DefaultRoleOf(c, req.opts), AllowedRolesOf(req.opts))

\* the account object of the insertAccount mutation
NewAccount(c, req) ==
  [email |-> req.email,
   password_hash |-> IF isRegularLogin(req) THEN hashPassword(req.password) ELSE NullHash,
   ticket |-> req.ticket,
   ticket_expires_at |-> req.expires,
   active |-> c["AUTO_ACTIVATE_NEW_USERS"],
   default_role |-> DefaultRoleOf(c, req.opts),
   account_roles |-> AllowedRolesOf(req.opts),
   new_email |-> Undefined]

\* fault variant: the mutation runs before the checks
AccountsAfterValidation_InsertFirst(accts, rejection, account) ==
  Append(accts, account)

\* The accounts table once the checks and the insertAccount mutation are
\* through: the handler returns at the first check that fails, and the
\* mutation comes after the last check.
AccountsAfterValidation(accts, rejection, account) ==
  IF rejection # "" THEN accts ELSE Append(accts, account)

\* the id of the row a mutation has added, if it has added one
InsertedId(before, after) ==
  IF Len(after) > Len(before) THEN Len(after) ELSE NoAccount

\* Password check, role checks and the insertAccount mutation.
RegisterInsert(s, dbOk) ==
  /\ reqs[s].pc = "reg_validate"
  /\ LET req == reqs[s]
         rej == LateRejection(cfg, req)
         after == AccountsAfterValidation(accounts, rej, NewAccount(cfg, req))
         done == [req EXCEPT !.acct = InsertedId(accounts, after)]
     IN IF rej = "" /\ ~dbOk
        THEN /\ lastResponse' = Response(req, 500, "insertAccount failed")
             /\ reqs' = [reqs EXCEPT ![s] = IdleRequest]
             /\ UNCHANGED accounts
        ELSE /\ accounts' = after
             /\ IF rej # ""
                THEN /\ lastResponse' = Response(done, 400, rej)
                     /\ reqs' = [reqs EXCEPT ![s] = IdleRequest]
                ELSE /\ lastResponse' = NoResponse
                     /\ reqs' = [reqs EXCEPT ![s] =
                                   [done EXCEPT !.pc = "reg_inserted",
                                                !.password = Undefined, !.opts = NoOptions]]
  /\ lastEmail' = NoEmail
  /\ UNCHANGED <<cfg, now, refresh_tokens, nextUuid, exchanged>>

\* fault variant: the ticket is taken back when the send fails
AccountsAfterSendFailure_Rollback(accts, id) ==
  [accts EXCEPT ![id].ticket = NoTicket, ![id].ticket_expires_at = NullTime]

\* What a failed emailClient.send leaves in the backend: the handlers have no
\* catch block, so the rejected await propagates and nothing is undone.
AccountsAfterSendFailure(accts, id) == accts

RegisterTemplate(req) ==
  IF req.magicLink THEN "magic-link" ELSE "activate-account"

Email(req, template) ==
  [req |-> req.id, template |-> template, to |-> req.email, ticket |-> req.ticket]

Attempted(req) == [req EXCEPT !.sendAttempts = req.sendAttempts + 1]

\* Everything after the insert: the verification email or the session.
RegisterFinish(s, mailOk, dbOk) ==
  /\ reqs[s].pc = "reg_inserted"
  /\ reqs' = [reqs EXCEPT ![s] = IdleRequest]
  /\ LET req == reqs[s]
     IN IF VerificationRequired(cfg)
        THEN IF ~cfg["EMAILS_ENABLED"]
             THEN /\ lastResponse' = Response(req, 500, "SMTP settings unavailable")
                  /\ lastEmail' = NoEmail
                  /\ UNCHANGED <<accounts, refresh_tokens>>
             ELSE IF ~mailOk
             THEN /\ lastResponse' = Response(Attempted(req), 500, "emailClient.send failed")
                  /\ accounts' = AccountsAfterSendFailure(accounts, req.acct)
                  /\ lastEmail' = NoEmail
                  /\ UNCHANGED refresh_tokens
             ELSE /\ lastEmail' = Email(req, RegisterTemplate(req))
                  /\ lastResponse' = Response(Attempted(req), 200, "")
                  /\ UNCHANGED <<accounts, refresh_tokens>>
        ELSE /\ lastEmail' = NoEmail
             /\ IF ~dbOk
                THEN /\ lastResponse' = Response(req, 500, "setRefreshToken failed")
                     /\ UNCHANGED <<accounts, refresh_tokens>>
                ELSE /\ refresh_tokens' = refresh_tokens \cup {req.acct}
                     /\ lastResponse' = [Response(req, 200, "") EXCEPT !.jwt = req.acct,
                                                                       !.refresh = TRUE]
                     /\ UNCHANGED accounts
  /\ UNCHANGED <<cfg, now, nextUuid, exchanged>>

(* ----------------------- POST /user/email/change ----------------------- *)
\* fault variant: the null check on the updated user is missing
UserReturned_Always(accts, userId) == TRUE

\* update_users_by_pk is null when no row has the primary key
UserReturned(accts, userId) == userId \in DOMAIN accts

\* Ticket generation and the updateUser mutation.
EmailChangeUpdate(s, userId, newEmail, dbOk) ==
  /\ Free(s)
  /\ nextUuid <= MaxTickets
  /\ nextUuid' = nextUuid + 1
  /\ LET req == [IdleRequest EXCEPT !.id = nextUuid, !.kind = "emailChange",
                   !.email = newEmail,
                   !.ticket = ChangeTicket(nextUuid),
                   !.expires = generateTicketExpiresAt(now, 60 * 60),
                   !.genAt = now]
         found == userId \in DOMAIN accounts
     IN IF ~dbOk
        THEN /\ lastResponse' = Response(req, 500, "updateUser failed")
             /\ UNCHANGED <<accounts, reqs>>
        ELSE /\ IF found
                THEN accounts' = [accounts EXCEPT ![userId].ticket = req.ticket,
                                                ![userId].ticket_expires_at = req.expires,
                                                ![userId].new_email = newEmail]
                ELSE UNCHANGED accounts
             /\ IF UserReturned(accounts, userId)
                THEN /\ reqs' = [reqs EXCEPT ![s] =
                                   [req EXCEPT !.pc = "chg_updated",
                                               !.acct = IF found THEN userId ELSE NoAccount]]
                     /\ lastResponse' = NoResponse
                ELSE /\ lastResponse' = Response(req, 500, "Unable to get user")
                     /\ UNCHANGED reqs
  /\ lastEmail' = NoEmail
  /\ UNCHANGED <<cfg, now, refresh_tokens, exchanged>>

\* The confirmation email and the response.
EmailChangeSend(s, mailOk) ==
  /\ reqs[s].pc = "chg_updated"
  /\ reqs' = [reqs EXCEPT ![s] = IdleRequest]
  /\ LET req == reqs[s]
     IN IF ~mailOk
        THEN /\ lastResponse' = Response(Attempted(req), 500, "emailClient.send failed")
             /\ accounts' = IF req.acct \in DOMAIN accounts
                            THEN AccountsAfterSendFailure(accounts, req.acct)
                            ELSE accounts
             /\ lastEmail' = NoEmail
        ELSE /\ lastEmail' = Email(req, "email-confirm-change")
             /\ lastResponse' = Response(Attempted(req), 200, "OK")
             /\ UNCHANGED accounts
  /\ UNCHANGED <<cfg, now, refresh_tokens, nextUuid, exchanged>>

(* ------------------------ link-click callback -------------------------- *)
\* The handler of the emailed link, as the specification describes it: the
\* ticket is looked up, its type tag and its expiry are checked, and it is
\* exchanged for a session (refresh token and JWT) and nulled.
\* fault variant: the ticket is left in place
ConsumedTicket_Kept(ticket) == ticket

\* the ticket field once its ticket has been exchanged
ConsumedTicket(ticket) == NoTicket

\* the accounts a presented ticket may be exchanged for
Exchangeable(accts, t, ticketType, time) ==
  { i \in DOMAIN accts : /\ t # NoTicket
                         /\ accts[i].ticket = t
                         /\ t.prefix = ticketType
                         /\ accts[i].ticket_expires_at # NullTime
                         /\ accts[i].ticket_expires_at > time }

\* Verify the prefix and the expiry, then exchange the ticket for a session.
Verify(t, ticketType) ==
  /\ LET match == Exchangeable(accounts, t, ticketType, now)
         req == [IdleRequest EXCEPT !.kind = "verify"]
     IN IF match = {}
        THEN /\ lastResponse' = Response(req, 400, "Invalid or expired ticket")
             /\ UNCHANGED <<accounts, refresh_tokens, exchanged>>
        ELSE \E i \in match :
               /\ accounts' = [accounts EXCEPT ![i].ticket = ConsumedTicket(t)]
               /\ refresh_tokens' = refresh_tokens \cup {i}
               /\ exchanged' = exchanged \cup {t}
               /\ lastResponse' = [Response(req, 200, "") EXCEPT
                                     !.acct = i, !.jwt = i, !.refresh = TRUE]
  /\ lastEmail' = NoEmail
  /\ UNCHANGED <<cfg, now, reqs, nextUuid>>

\* every ticket string generated so far, with and without the type tag
PresentableTickets ==
  { [prefix |-> p, uuid |-> u] : p \in {NoPrefix, EMAIL_TYPES_CONFIRM_CHANGE},
                                 u \in 1..(nextUuid - 1) }

(* ------------------------------ clock ---------------------------------- *)
AdvanceClock ==
  /\ now < MaxTicks * Tick
  /\ now' = now + Tick
  /\ lastResponse' = NoResponse
  /\ lastEmail' = NoEmail
  /\ UNCHANGED <<cfg, accounts, refresh_tokens, reqs, nextUuid, exchanged>>

Next ==
  \/ \E s \in Slots, e \in Emails, b \in Bodies, a \in BOOLEAN : RegisterStart(s, e, b, a)
  \/ \E s \in Slots, dbOk \in BOOLEAN : RegisterInsert(s, dbOk)
  \/ \E s \in Slots, mailOk \in BOOLEAN, dbOk \in BOOLEAN : RegisterFinish(s, mailOk, dbOk)
  \/ \E s \in Slots, u \in 1..(Len(accounts) + 1), e \in NewEmails, dbOk \in BOOLEAN :
       EmailChangeUpdate(s, u, e, dbOk)
  \/ \E s \in Slots, mailOk \in BOOLEAN : EmailChangeSend(s, mailOk)
  \/ \E t \in PresentableTickets, ty \in TicketTypes : Verify(t, ty)
  \/ AdvanceClock

Spec == Init /\ [][Next]_vars

(* ------------------------------ claims --------------------------------- *)
\* lastResponse and lastEmail are what the last step answered and mailed, so
\* a primed lastResponse in an action formula is the response of that step.

\* C1: every account that register inserts has its default role among its
\* own allowed roles, and all its allowed roles are in ALLOWED_USER_ROLES,
\* whether they come from register_options or from the configured defaults;
\* a request that fails either check is answered 400 and inserts nothing.
RoleSubsetValidation ==
  /\ \A i \in DOMAIN accounts :
       /\ Includes(accounts[i].account_roles, accounts[i].default_role)
       /\ \A k \in DOMAIN accounts[i].account_roles :
            Includes(ALLOWED_USER_ROLES, accounts[i].account_roles[k])
  /\ (lastResponse.msg \in {"Default role must be part of allowed roles",
                            "Allowed roles must be a subset of ALLOWED_ROLES"}
        => lastResponse.status = 400 /\ lastResponse.acct = NoAccount)

\* an account registered with roles from register_options next to one
\* registered with the configured defaults
RoleSubsetValidationWitness ==
  /\ \E i \in DOMAIN accounts : accounts[i].account_roles = <<"me", "editor">>
  /\ \E i \in DOMAIN accounts : accounts[i].account_roles = DEFAULT_ALLOWED_USER_ROLES

\* C2: every ticket persisted, by registration as well as by an email-change
\* request, carries a type tag naming its flow in front of the identifier.
TicketsAreTypeTagged ==
  \A i \in DOMAIN accounts :
    accounts[i].ticket # NoTicket => accounts[i].ticket.prefix \in TicketTypes

\* C3: once a ticket has been exchanged, the ticket field it was stored in is
\* nulled and no account holds it, so presenting it again under any type, at
\* any later time and after any other operations, finds nothing to exchange.
TicketSingleUse ==
  \A t \in exchanged :
    /\ \A i \in DOMAIN accounts : accounts[i].ticket # t
    /\ \A ty \in TicketTypes : Exchangeable(accounts, t, ty, now) = {}

\* a callback rejected after a ticket was exchanged, the account's ticket null
TicketSingleUseWitness ==
  /\ exchanged # {}
  /\ lastResponse.kind = "verify" /\ lastResponse.status = 400
  /\ \E i \in refresh_tokens : accounts[i].ticket = NoTicket

\* C4: an account with a ticket has a ticket expiry, and every write of a
\* ticket writes with it the expiry one hour after the time at which the
\* writing request generated the ticket.
TicketStoredWithExpiry ==
  /\ [](\A i \in DOMAIN accounts :
          accounts[i].ticket # NoTicket => accounts[i].ticket_expires_at # NullTime)
  /\ [][/\ \A s \in Slots :
             reqs'[s].genAt # reqs[s].genAt /\ reqs'[s].genAt # NullTime
               => reqs'[s].genAt = now
        /\ \A i \in DOMAIN accounts' :
             /\ i \in DOMAIN accounts => accounts'[i].ticket # accounts[i].ticket
             /\ accounts'[i].ticket # NoTicket
             => \E s \in Slots : \E r \in {reqs[s], reqs'[s]} :
                  /\ r.ticket = accounts'[i].ticket
                  /\ r.genAt # NullTime
                  /\ accounts'[i].ticket_expires_at = r.genAt + 3600000]_vars

\* a ticket written by a request made after the clock has advanced
TicketStoredWithExpiryWitness ==
  \E i \in DOMAIN accounts :
    /\ accounts[i].ticket # NoTicket
    /\ accounts[i].ticket_expires_at = Tick + 3600000

\* C5: a register request answered 4xx has written nothing: the step that
\* answers leaves accounts and refresh tokens as they were and mails nothing,
\* and the request has inserted no account and got no JWT.
RegisterRejectsBeforeWrite ==
  [][lastResponse'.kind = "register" /\ lastResponse'.status \in {400, 401}
       => /\ accounts' = accounts
          /\ refresh_tokens' = refresh_tokens
          /\ lastEmail' = NoEmail
          /\ lastResponse'.acct = NoAccount
          /\ lastResponse'.sendAttempts = 0
          /\ lastResponse'.jwt = NoAccount
          /\ ~lastResponse'.refresh]_vars

\* a rejection by the last check before the insert, with an account in place
RegisterRejectsBeforeWriteWitness ==
  /\ lastResponse.kind = "register"
  /\ lastResponse.status = 400
  /\ lastResponse.msg = "Allowed roles must be a subset of ALLOWED_ROLES"
  /\ Len(accounts) = 1

\* C6: when mail is unavailable or the send fails after the write, the
\* request ends with an error, the send was attempted at most once, and the
\* step undoes nothing of what is in the backend.
NoRetryNoRollback ==
  [][lastResponse'.msg \in {"SMTP settings unavailable", "emailClient.send failed"}
       => /\ lastResponse'.status = 500
          /\ lastResponse'.sendAttempts <= 1
          /\ lastResponse'.acct # NoAccount
          /\ accounts' = accounts
          /\ \E s \in Slots : reqs[s].pc # "idle" /\ reqs'[s].pc = "idle"]_vars

\* a failed send of an email-change request, ticket and newEmail still stored
NoRetryNoRollbackWitness ==
  /\ lastResponse.kind = "emailChange"
  /\ lastResponse.msg = "emailClient.send failed"
  /\ lastResponse.acct \in DOMAIN accounts
  /\ accounts[lastResponse.acct].ticket.prefix = EMAIL_TYPES_CONFIRM_CHANGE
  /\ accounts[lastResponse.acct].new_email \in NewEmails

\* C7: a request marks its account only in the step that writes its ticket
\* there; an email is mailed only by a request that has done so in an earlier
\* step, and carries that ticket; an update that returns no user ends the
\* request with an error and no email.
PersistBeforeEmail ==
  [][/\ \A s \in Slots :
          reqs'[s].acct # NoAccount /\ reqs[s].acct = NoAccount
            => /\ reqs'[s].acct \in DOMAIN accounts'
               /\ accounts'[reqs'[s].acct].ticket = reqs'[s].ticket
     /\ lastEmail' # NoEmail
          => \E s \in Slots : /\ reqs[s].acct \in DOMAIN accounts
                              /\ reqs[s].ticket = lastEmail'.ticket
                              /\ reqs'[s].pc = "idle"
     /\ lastResponse'.msg = "Unable to get user"
          => /\ lastResponse'.status = 500
             /\ lastEmail' = NoEmail
             /\ reqs' = reqs]_vars

\* the confirmation email of an email-change request has been mailed
PersistBeforeEmailWitness ==
  /\ lastEmail.template = "email-confirm-change"
  /\ lastEmail.ticket.prefix = EMAIL_TYPES_CONFIRM_CHANGE
  /\ lastResponse.status = 200

\* C8: with AUTO_ACTIVATE_NEW_USERS false and VERIFY_EMAILS true a successful
\* register has mailed one email with its ticket (magic-link for a
\* registration without password, activate-account otherwise), returns no
\* JWT and stores no refresh token; register returns a JWT or stores a
\* refresh token only when that condition does not hold.
NoSessionBeforeVerification ==
  [][lastResponse'.kind = "register"
       => /\ (~cfg["AUTO_ACTIVATE_NEW_USERS"] /\ cfg["VERIFY_EMAILS"]
                /\ lastResponse'.status = 200
              => /\ lastResponse'.sendAttempts = 1
                 /\ lastEmail' # NoEmail
                 /\ lastEmail'.ticket # NoTicket
                 /\ lastEmail'.to = accounts[lastResponse'.acct].email
                 /\ lastEmail'.template =
                      IF accounts[lastResponse'.acct].password_hash = NullHash
                      THEN "magic-link" ELSE "activate-account"
                 /\ lastResponse'.jwt = NoAccount
                 /\ ~lastResponse'.refresh
                 /\ refresh_tokens' = refresh_tokens)
          /\ (lastResponse'.jwt # NoAccount \/ lastResponse'.refresh
                \/ refresh_tokens' # refresh_tokens
              => ~(~cfg["AUTO_ACTIVATE_NEW_USERS"] /\ cfg["VERIFY_EMAILS"]))]_vars

\* a magic-link registration answered with a session without JWT
NoSessionBeforeVerificationWitness ==
  /\ lastResponse.kind = "register" /\ lastResponse.status = 200
  /\ lastResponse.jwt = NoAccount
  /\ lastEmail.template = "magic-link"

\* C9: at most one account exists per email address, after any interleaving
\* of register requests.
AtMostOneAccountPerEmail ==
  \A i, j \in DOMAIN accounts : accounts[i].email = accounts[j].email => i = j

\* C10: a register response with a JWT is for an account inserted as active,
\* whatever AUTO_ACTIVATE_NEW_USERS and VERIFY_EMAILS are.
JwtOnlyForActiveAccount ==
  lastResponse.kind = "register" /\ lastResponse.jwt # NoAccount
    => accounts[lastResponse.jwt].active
====
